---- MODULE Spec2Model ----
(***************************************************************************)
(* A model of the RCL dashboard's data core: the value parser              *)
(* (converter_valor), the directory loader (carregar_rcl, in its two       *)
(* variants) and the forecast pages' pipeline.                             *)
(*                                                                         *)
(* Text is modelled as a sequence of tokens.  Where the code looks inside  *)
(* a string (a month header, a numeric cell, a file name) every token is   *)
(* one character; a label the code only trims and compares is one token    *)
(* for its body, with its surrounding blanks as separate " " tokens.       *)
(*                                                                         *)
(* A float is the exact decimal m / 10^e, kept normalised (no trailing     *)
(* zero in m unless e = 0); NaN and a raised ValueError are separate       *)
(* tags of the same record shape.                                          *)
(***************************************************************************)
EXTENDS Integers, Sequences, FiniteSets, TLC

VARIABLES
    valor,      \* converter_valor: the cell handed to it
    retorno,    \* converter_valor: what it returned (or raised)
    pcValor,    \* converter_valor: "chamar" before the call, "fim" after
    diretorio,  \* carregar_rcl: the directory, [existe, arquivos]
    modo,       \* carregar_rcl: which loader runs, PUNCTUATED or HINTED
    pc,         \* carregar_rcl: "ocioso" between calls, "laco" inside one
    arquivos,   \* carregar_rcl: the sorted names the glob found
    indice,     \* carregar_rcl: how many files the loop has taken
    lista_dfs,  \* carregar_rcl: the per-file tables appended so far
    retornos,   \* every finished call's outcome, [erro, tabela], in order
    pagina,     \* forecast: which page's script runs
    df,         \* forecast: the table carregar_dados returned
    pcPrev,     \* forecast: the script's position
    motivo,     \* forecast: why the run stopped, "" while it has not
    especificacao,  \* forecast: the selectbox's value
    anos_previsao,  \* forecast: the slider's value
    df_modelo,  \* forecast: the validated series, rows [ds, y]
    train,      \* forecast: the training rows
    test,       \* forecast: the held-out rows
    ajustes,    \* forecast: how many times fit was called
    treinado,   \* forecast: the rows fit was given
    forecast,   \* forecast: predict's rows, [ds, yhat, yhat_lower, yhat_upper]
    metricas,   \* forecast: the validation metrics' inputs
    df_futuro,  \* forecast: the rows of the projected-values table
    produzido   \* forecast: the outputs the run has produced so far

varsValor == <<valor, retorno, pcValor>>

varsCarga == <<diretorio, modo, pc, arquivos, indice, lista_dfs, retornos>>

varsPrev ==
    <<pagina, df, pcPrev, motivo, especificacao, anos_previsao, df_modelo,
      train, test, ajustes, treinado, forecast, metricas, df_futuro, produzido>>

vars == <<varsValor, varsCarga, varsPrev>>

\* a part of the program that a specification does not run
ValorParado == valor = <<>> /\ retorno = <<>> /\ pcValor = "parado"

CargaParada ==
    /\ diretorio = <<>> /\ modo = "" /\ pc = "parado"
    /\ arquivos = <<>> /\ indice = 0 /\ lista_dfs = <<>> /\ retornos = <<>>

PrevisaoParada ==
    /\ pagina = "" /\ df = <<>> /\ pcPrev = "fora" /\ motivo = ""
    /\ especificacao = <<>> /\ anos_previsao = 0 /\ df_modelo = <<>>
    /\ train = <<>> /\ test = <<>> /\ ajustes = 0 /\ treinado = <<>>
    /\ forecast = <<>> /\ metricas = <<>> /\ df_futuro = <<>>
    /\ produzido = {}

----------------------------------------------------------------------------
(* Text helpers *)

Digitos == <<"0", "1", "2", "3", "4", "5", "6", "7", "8", "9">>

EhDigito(c) == \E i \in 1..10 : Digitos[i] = c

DigitVal(c) == (CHOOSE i \in 1..10 : Digitos[i] = c) - 1

EhBranco(c) == c \in {" ", "\t"}

Contem(s, c) == \E i \in 1..Len(s) : s[i] = c

\* str.replace(c, ""): every occurrence of the character deleted
RECURSIVE Apagar(_, _)
Apagar(s, c) ==
    IF s = <<>> THEN <<>>
    ELSE IF Head(s) = c THEN Apagar(Tail(s), c)
         ELSE <<Head(s)>> \o Apagar(Tail(s), c)

\* str.replace(a, b) for single characters
Trocar(s, a, b) == [i \in 1..Len(s) |-> IF s[i] = a THEN b ELSE s[i]]

RECURSIVE LStrip(_)
LStrip(s) ==
    IF s # <<>> /\ EhBranco(Head(s)) THEN LStrip(Tail(s)) ELSE s

RECURSIVE RStrip(_)
RStrip(s) ==
    IF s # <<>> /\ EhBranco(s[Len(s)])
    THEN RStrip(SubSeq(s, 1, Len(s) - 1))
    ELSE s

\* str.strip()
Strip(s) == RStrip(LStrip(s))

RECURSIVE Pot10(_)
Pot10(k) == IF k = 0 THEN 1 ELSE 10 * Pot10(k - 1)

\* the integer a run of digit characters writes
RECURSIVE DigitosParaInt(_)
DigitosParaInt(s) ==
    IF s = <<>> THEN 0
    ELSE 10 * DigitosParaInt(SubSeq(s, 1, Len(s) - 1)) + DigitVal(s[Len(s)])

----------------------------------------------------------------------------
(* Floats *)

RECURSIVE Norm(_, _)
Norm(m, e) ==
    IF e > 0 /\ m % 10 = 0 THEN Norm(m \div 10, e - 1)
    ELSE [tipo |-> "float", m |-> m, e |-> e]

NaN == [tipo |-> "nan", m |-> 0, e |-> 0]

ValueError == [tipo |-> "ValueError", m |-> 0, e |-> 0]

Zero == Norm(0, 0)

Neg(x) == IF x.tipo = "float" THEN [x EXCEPT !.m = -x.m] ELSE x

\* Python's float(str) on the characters the model writes numbers with:
\* blanks around are ignored, one optional sign, digits with at most one
\* ".", at least one digit; anything else raises ValueError.
ParseFloat(s) ==
    LET t    == Strip(s)
        sinal == IF t # <<>> /\ t[1] = "-" THEN -1 ELSE 1
        u    == IF t # <<>> /\ t[1] \in {"-", "+"} THEN Tail(t) ELSE t
        pontos == {i \in 1..Len(u) : u[i] = "."}
        ds   == Apagar(u, ".")
    IN  IF /\ \A i \in 1..Len(u) : EhDigito(u[i]) \/ u[i] = "."
           /\ Cardinality(pontos) <= 1
           /\ ds # <<>>
        THEN LET casas == IF pontos = {} THEN 0
                          ELSE Len(u) - (CHOOSE i \in pontos : TRUE)
             IN  Norm(sinal * DigitosParaInt(ds), casas)
        ELSE ValueError

----------------------------------------------------------------------------
(* Cells of a sheet: missing, a text, or a number *)

CelNaN == [kind |-> "nan", s |-> <<>>, v |-> NaN]

CelStr(s) == [kind |-> "str", s |-> s, v |-> NaN]

CelNum(x) == [kind |-> "num", s |-> <<>>, v |-> x]

\* pd.isna on a scalar
IsNa(c) == c.kind = "nan" \/ (c.kind = "num" /\ c.v.tipo = "nan")

\* converter_valor with the sign of a parenthesised text kept positive
converter_valor_SemNegar(c) ==
    IF IsNa(c) THEN Zero
    ELSE IF c.kind = "str"
    THEN ParseFloat(Trocar(Apagar(Apagar(Apagar(c.s, "("), ")"), "."), ",", "."))
    ELSE c.v

\* converter_valor with the thousands separators left in place
converter_valor_SemMilhar(c) ==
    IF IsNa(c) THEN Zero
    ELSE IF c.kind = "str" /\ Contem(c.s, "(") /\ Contem(c.s, ")")
    THEN Neg(ParseFloat(Trocar(Apagar(Apagar(c.s, "("), ")"), ",", ".")))
    ELSE IF c.kind = "str"
    THEN ParseFloat(Trocar(c.s, ",", "."))
    ELSE c.v

\* converter_valor without its first test: float(nan) is nan
converter_valor_SemIsNa(c) ==
    IF IsNa(c) THEN NaN
    ELSE IF c.kind = "str" /\ Contem(c.s, "(") /\ Contem(c.s, ")")
    THEN Neg(ParseFloat(Trocar(Apagar(Apagar(Apagar(c.s, "("), ")"), "."), ",", ".")))
    ELSE IF c.kind = "str"
    THEN ParseFloat(Trocar(Apagar(c.s, "."), ",", "."))
    ELSE c.v

\* a converter that answers 0 where float() raises
converter_valor_Tolerante(c) ==
    LET r == IF IsNa(c) THEN Zero
             ELSE IF c.kind = "str" /\ Contem(c.s, "(") /\ Contem(c.s, ")")
             THEN Neg(ParseFloat(Trocar(Apagar(Apagar(Apagar(c.s, "("), ")"), "."),
                                        ",", ".")))
             ELSE IF c.kind = "str"
             THEN ParseFloat(Trocar(Apagar(c.s, "."), ",", "."))
             ELSE c.v
    IN  IF r.tipo = "ValueError" THEN Zero ELSE r

converter_valor(c) ==
    IF IsNa(c) THEN Zero
    ELSE IF c.kind = "str" /\ Contem(c.s, "(") /\ Contem(c.s, ")")
    THEN LET semPar == Apagar(Apagar(c.s, "("), ")")
         IN  Neg(ParseFloat(Trocar(Apagar(semPar, "."), ",", ".")))
    ELSE IF c.kind = "str"
    THEN ParseFloat(Trocar(Apagar(c.s, "."), ",", "."))
    ELSE c.v

----------------------------------------------------------------------------
(* File names: glob, sort, year *)

\* code points of the characters file names are written with
Cod(c) ==
    CASE c = "-" -> 45 [] c = "." -> 46
      [] EhDigito(c) -> 48 + DigitVal(c)
      [] c = "A" -> 65 [] c = "C" -> 67 [] c = "F" -> 70 [] c = "H" -> 72
      [] c = "L" -> 76 [] c = "O" -> 79 [] c = "R" -> 82
      [] c = "a" -> 97 [] c = "b" -> 98 [] c = "l" -> 108
      [] c = "s" -> 115 [] c = "x" -> 120

\* Python's str (and Path) "<": the first differing character decides,
\* a proper prefix comes first
RECURSIVE LexMenor(_, _)
LexMenor(a, b) ==
    IF b = <<>> THEN FALSE
    ELSE IF a = <<>> THEN TRUE
    ELSE IF Head(a) = Head(b) THEN LexMenor(Tail(a), Tail(b))
    ELSE Cod(Head(a)) < Cod(Head(b))

\* sorted(...) of a set of names
RECURSIVE Ordenar(_)
Ordenar(S) ==
    IF S = {} THEN <<>>
    ELSE LET menor == CHOOSE x \in S : \A y \in S \ {x} : LexMenor(x, y)
         IN  <<menor>> \o Ordenar(S \ {menor})

Prefixo == <<"R", "C", "L", "-">>

Ext == <<".", "x", "l", "s">>

\* a pattern every name matches
CasaGlobTudo(nome) == TRUE

\* fnmatch of "RCL-*.xls"
CasaGlob(nome) ==
    /\ Len(nome) >= Len(Prefixo) + Len(Ext)
    /\ SubSeq(nome, 1, Len(Prefixo)) = Prefixo
    /\ SubSeq(nome, Len(nome) - Len(Ext) + 1, Len(nome)) = Ext

\* Path.stem: the name up to its last "."
Stem(nome) ==
    LET pts == {i \in 2..Len(nome) : nome[i] = "."}
    IN  IF pts = {} THEN nome
        ELSE SubSeq(nome, 1, (CHOOSE i \in pts : \A j \in pts : j <= i) - 1)

\* s.split("-")[1]: what stands between the first "-" and the next one
\* (or the end); the glob guarantees a first "-"
Segmento(s) ==
    LET tr == {i \in 1..Len(s) : s[i] = "-"}
        p  == CHOOSE i \in tr : \A j \in tr : i <= j
        depois == {i \in tr : i > p}
        q  == IF depois = {} THEN Len(s) + 1
              ELSE CHOOSE i \in depois : \A j \in depois : i <= j
    IN  SubSeq(s, p + 1, q - 1)

\* Python's int(str): blanks around ignored, then digits only
IntPyOk(s) ==
    LET t == Strip(s)
    IN  t # <<>> /\ \A i \in 1..Len(t) : EhDigito(t[i])

\* int() of the last two characters only
IntPyDoisDigitos(s) ==
    LET t == Strip(s) IN DigitosParaInt(SubSeq(t, Len(t) - 1, Len(t)))

IntPy(s) == DigitosParaInt(Strip(s))

----------------------------------------------------------------------------
(* One sheet: column headers and rows of cells, as read_excel returns it *)

ColEspec == <<"ESPECIFICAÇÃO">>

COLUNAS_REMOVIDAS == {<<"TOTAL">>, <<"Previsão">>}

\* df.columns.str.strip()
LimparColunas(cols) == [j \in 1..Len(cols) |-> Strip(cols[j])]

\* positions of the columns that df.drop(columns=[...], errors="ignore") keeps
Mantidas(cols) == {j \in 1..Len(cols) : cols[j] \notin COLUNAS_REMOVIDAS}

\* dropna(how="all"): a row stays when one of its kept cells is not missing
LinhaFica(linha, mantidas) == \E j \in mantidas : ~IsNa(linha[j])

RECURSIVE Filtrar(_, _)
Filtrar(linhas, mantidas) ==
    IF linhas = <<>> THEN <<>>
    ELSE (IF LinhaFica(Head(linhas), mantidas) THEN <<Head(linhas)>> ELSE <<>>)
         \o Filtrar(Tail(linhas), mantidas)

\* .astype(str).str.strip() of the label cell
Rotulo(c) == IF IsNa(c) THEN <<"nan">> ELSE Strip(c.s)

\* the columns whose name contains "/", in column order
RECURSIVE ColunasMeses(_, _, _)
ColunasMeses(cols, mantidas, j) ==
    IF j > Len(cols) THEN <<>>
    ELSE (IF j \in mantidas /\ Contem(cols[j], "/") THEN <<j>> ELSE <<>>)
         \o ColunasMeses(cols, mantidas, j + 1)

\* pd.to_datetime(text, format="%m/%Y"): one or two digits of a month
\* 1..12, "/", exactly four digits of a year a Timestamp can hold
ANO_MIN == 1678

ANO_MAX == 2261

DataOk(h) ==
    LET bs == {i \in 1..Len(h) : h[i] = "/"}
    IN  /\ Cardinality(bs) = 1
        /\ LET b  == CHOOSE i \in bs : TRUE
               mm == SubSeq(h, 1, b - 1)
               yy == SubSeq(h, b + 1, Len(h))
           IN  /\ Len(mm) \in {1, 2}
               /\ Len(yy) = 4
               /\ \A i \in 1..Len(mm) : EhDigito(mm[i])
               /\ \A i \in 1..Len(yy) : EhDigito(yy[i])
               /\ DigitosParaInt(mm) \in 1..12
               /\ DigitosParaInt(yy) \in ANO_MIN..ANO_MAX

ParseData(h) ==
    LET b == CHOOSE i \in 1..Len(h) : h[i] = "/"
    IN  [ano |-> DigitosParaInt(SubSeq(h, b + 1, Len(h))),
         mes |-> DigitosParaInt(SubSeq(h, 1, b - 1))]

\* df_long["VALOR"] before astype(float): the PUNCTUATED loader applies
\* converter_valor, the HINTED loader leaves the cell as read
ValorDe(c, md) ==
    IF md = "PUNCTUATED" THEN converter_valor(c)
    ELSE IF c.kind = "str" THEN ParseFloat(c.s)
    ELSE IF IsNa(c) THEN NaN
    ELSE c.v

\* df.melt: for each month column in turn, one record per row
RECURSIVE Melt(_, _, _, _)
Melt(cols, linhas, meses, jEspec) ==
    IF meses = <<>> THEN <<>>
    ELSE [r \in 1..Len(linhas) |->
            [ESPECIFICACAO |-> Rotulo(linhas[r][jEspec]),
             MES_ANO |-> cols[Head(meses)],
             VALOR |-> linhas[r][Head(meses)]]]
         \o Melt(cols, linhas, Tail(meses), jEspec)

\* the year taken from the month header instead
AnoDoCabecalho(ano, data) == data.ano

\* df_long["ANO"] = ano: the file's year, not the header's
AnoDe(ano, data) == ano

\* the loop body of carregar_rcl for one file
NormalizarArquivo(arq, md) ==
    LET seg == Segmento(Stem(arq.nome))
    IN  IF ~IntPyOk(seg) THEN [erro |-> "ValueError", regs |-> <<>>]
        ELSE
        LET ano      == IntPy(seg)
            cols     == LimparColunas(arq.folha.colunas)
            mantidas == Mantidas(cols)
            linhas   == Filtrar(arq.folha.linhas, mantidas)
            espec    == {j \in mantidas : cols[j] = ColEspec}
        IN  IF espec = {} THEN [erro |-> "KeyError", regs |-> <<>>]
            ELSE
            LET jEspec == CHOOSE j \in espec : TRUE
                meses  == ColunasMeses(cols, mantidas, 1)
                longo  == Melt(cols, linhas, meses, jEspec)
                vals   == [k \in 1..Len(longo) |-> ValorDe(longo[k].VALOR, md)]
            IN  IF \E k \in 1..Len(longo) : vals[k].tipo = "ValueError"
                THEN [erro |-> "ValueError", regs |-> <<>>]
                ELSE IF \E k \in 1..Len(longo) : ~DataOk(longo[k].MES_ANO)
                THEN [erro |-> "ValueError", regs |-> <<>>]
                ELSE [erro |-> "",
                      regs |-> [k \in 1..Len(longo) |->
                          [ESPECIFICACAO |-> Strip(longo[k].ESPECIFICACAO),
                           MES_ANO |-> ParseData(longo[k].MES_ANO),
                           VALOR |-> vals[k],
                           ANO |-> AnoDe(ano, ParseData(longo[k].MES_ANO))]]]

----------------------------------------------------------------------------
(* carregar_rcl: concatenation and relabelling *)

RENOMEANDO_COLUNAS ==
    <<[de   |-> <<"RECEITA CORRENTE LÍQUIDA (I-II)">>,
       para |-> <<"RECEITA CORRENTE LÍQUIDA (III) = (I - II)">>],
      [de   |-> <<"Outras receitas tributárias">>,
       para |-> <<"Outros Impostos, Taxas e Contribuições de Melhoria">>],
      [de   |-> <<"Receita tributária">>,
       para |-> <<"Impostos, Taxas e Contribuições de Melhoria">>]>>

Chaves == {RENOMEANDO_COLUNAS[i].de : i \in 1..Len(RENOMEANDO_COLUNAS)}

\* Series.map(dict): a label that is no key becomes missing
SubstituirMap(rot) ==
    IF rot \in Chaves
    THEN RENOMEANDO_COLUNAS[CHOOSE i \in 1..Len(RENOMEANDO_COLUNAS) :
                                RENOMEANDO_COLUNAS[i].de = rot].para
    ELSE <<"nan">>

\* Series.replace(dict) on one value
Substituir(rot) ==
    IF rot \in Chaves
    THEN RENOMEANDO_COLUNAS[CHOOSE i \in 1..Len(RENOMEANDO_COLUNAS) :
                                RENOMEANDO_COLUNAS[i].de = rot].para
    ELSE rot

\* the replaced column never assigned back
RenomearNada(tab) == tab

Renomear(tab) ==
    [k \in 1..Len(tab) |-> [tab[k] EXCEPT !.ESPECIFICACAO = Substituir(@)]]

\* pd.concat(...).drop_duplicates(): a repeated record kept once
RECURSIVE SemDuplicatas(_, _)
SemDuplicatas(tab, vistos) ==
    IF tab = <<>> THEN <<>>
    ELSE (IF Head(tab) \in vistos THEN <<>> ELSE <<Head(tab)>>)
         \o SemDuplicatas(Tail(tab), vistos \cup {Head(tab)})

RECURSIVE Juntar(_)
Juntar(lista) ==
    IF lista = <<>> THEN <<>> ELSE Head(lista) \o Juntar(Tail(lista))

ConcatenarSemDuplicatas(lista) == SemDuplicatas(Juntar(lista), {})

\* pd.concat(lista_dfs, ignore_index=True)
RECURSIVE Concatenar(_)
Concatenar(lista) ==
    IF lista = <<>> THEN <<>> ELSE Head(lista) \o Concatenar(Tail(lista))

\* the list kept from one call to the next
ListaHerdada(anterior) == anterior

\* lista_dfs = [] at the start of every call
ListaInicial(anterior) == <<>>

\* caminho.glob("RCL-*.xls"), sorted
Descobrir(dir) == Ordenar({a.nome : a \in {x \in dir.arquivos : CasaGlob(x.nome)}})

ArquivoDe(dir, nome) == CHOOSE a \in dir.arquivos : a.nome = nome

----------------------------------------------------------------------------
(* converter_valor as a call: the cell is drawn, then the function runs *)

MaxCelLen == 4

MaxNum == 3

AlfabetoCel == {"(", ")", ".", ",", "-", " ", "0", "1"}

\* the decimal digits of n >= 0, most significant first
RECURSIVE IntParaDigitos(_)
IntParaDigitos(n) ==
    IF n < 10 THEN <<Digitos[n + 1]>>
    ELSE IntParaDigitos(n \div 10) \o <<Digitos[(n % 10) + 1]>>

\* "." before every group of three digits, counted from the right
RECURSIVE Agrupar(_)
Agrupar(ds) ==
    IF Len(ds) <= 3 THEN ds
    ELSE Agrupar(SubSeq(ds, 1, Len(ds) - 3)) \o <<".">>
         \o SubSeq(ds, Len(ds) - 2, Len(ds))

\* n written the Brazilian way, with the decimals dec after a ","
FormatBR(n, dec) ==
    Agrupar(IntParaDigitos(n)) \o (IF dec = <<>> THEN <<>> ELSE <<",">> \o dec)

\* the number FormatBR(n, dec) writes
ValorBR(n, dec) == Norm(n * Pot10(Len(dec)) + DigitosParaInt(dec), Len(dec))

IntAmostras == {0, 7, 42, 999, 1000, 1234, 20050, 1234567}

DecAmostras == {<<>>, <<"5">>, <<"5", "6">>, <<"0", "0">>, <<"0", "7", "0">>}

Parenteses(s) == <<"(">> \o s \o <<")">>

CelulasTexto ==
    UNION {[1..n -> AlfabetoCel] : n \in 0..MaxCelLen}
    \cup {FormatBR(n, d) : n \in IntAmostras, d \in DecAmostras}
    \cup {Parenteses(FormatBR(n, d)) : n \in IntAmostras, d \in DecAmostras}
    \cup {<<"-">> \o FormatBR(n, d) : n \in IntAmostras, d \in DecAmostras}
    \cup {<<"n", "/", "d">>}

CelulasNumero ==
    {Norm(m, e) : m \in (-MaxNum)..MaxNum, e \in 0..2} \cup {NaN}

Celulas ==
    {CelNaN} \cup {CelStr(s) : s \in CelulasTexto}
             \cup {CelNum(x) : x \in CelulasNumero}

InitValor ==
    /\ valor \in Celulas
    /\ retorno = NaN
    /\ pcValor = "chamar"
    /\ CargaParada
    /\ PrevisaoParada

ConverterValor ==
    /\ pcValor = "chamar"
    /\ retorno' = converter_valor(valor)
    /\ pcValor' = "fim"
    /\ UNCHANGED <<valor, varsCarga, varsPrev>>

NextValor == ConverterValor

SpecValor == InitValor /\ [][NextValor]_vars

----------------------------------------------------------------------------
(* The directories the loader is run on *)

MaxArquivos == 2

MaxChamadas == 2

\* "MM/YYYY"
Mes(m, a) ==
    (IF m < 10 THEN <<"0">> ELSE <<>>) \o IntParaDigitos(m) \o <<"/">>
    \o IntParaDigitos(a)

Num(m, e) == CelNum(Norm(m, e))

Txt(s) == CelStr(s)

Folhas ==
    << \* 1: a label to trim and relabel, a parenthesised text, an empty row
       [colunas |-> <<ColEspec, Mes(1, 2020), Mes(2, 2020), <<"TOTAL">>>>,
        linhas  |-> <<
          <<Txt(<<"IPTU">>), Num(100, 0), Num(20050, 2), Num(30050, 2)>>,
          <<CelNaN, CelNaN, CelNaN, Num(0, 0)>>,
          <<Txt(<<" ", "Receita tributária", " ">>),
            Txt(Parenteses(FormatBR(1234, <<"5", "6">>))), CelNaN, Num(5, 0)>> >>],
       \* 2: headers to trim, a dropped column between the months
       [colunas |-> <<ColEspec \o <<" ">>, <<" ">> \o Mes(1, 2021) \o <<" ">>,
                      <<"Previsão">>, Mes(2, 2021)>>,
        linhas  |-> <<
          <<Txt(<<"ISS">>), CelNaN, Num(9, 0), Num(75, 1)>>,
          <<Txt(<<"RECEITA CORRENTE LÍQUIDA (I-II)">>), Num(1, 0), CelNaN,
            Txt(FormatBR(1234, <<"5", "6">>))>> >>],
       \* 3: one numeric cell
       [colunas |-> <<ColEspec, Mes(1, 2020)>>,
        linhas  |-> << <<Txt(<<"IPTU">>), Num(100, 0)>> >>],
       \* 4: a header with "/" that is no month
       [colunas |-> <<ColEspec, Mes(1, 2020), Mes(13, 2020)>>,
        linhas  |-> << <<Txt(<<"IPTU">>), Num(1, 0), Num(2, 0)>> >>],
       \* 5: no label column
       [colunas |-> <<Mes(1, 2020)>>,
        linhas  |-> << <<Num(1, 0)>> >>],
       \* 6: only empty rows
       [colunas |-> <<ColEspec, Mes(1, 2020), Mes(13, 2020)>>,
        linhas  |-> << <<CelNaN, CelNaN, CelNaN>> >>],
       \* 7: a text cell that is no number, a row without label
       [colunas |-> <<ColEspec, Mes(1, 2021), <<"Obs">>>>,
        linhas  |-> <<
          <<Txt(<<"IPTU">>), Txt(<<"n", "/", "d">>), Txt(<<"x">>)>>,
          <<CelNaN, Num(5, 0), CelNaN>> >>],
       \* 8: numbers and missing cells only, labels near the relabel keys
       [colunas |-> <<ColEspec, Mes(1, 2021), Mes(2, 2021)>>,
        linhas  |-> <<
          <<Txt(<<"Outras receitas tributárias">>), Num(0, 0), CelNaN>>,
          <<Txt(<<"RECEITA TRIBUTÁRIA">>), Num(-3, 0), Num(25, 1)>>,
          <<CelNaN, Num(5, 0), CelNaN>>,
          <<Txt(<<"Impostos, Taxas e Contribuições de Melhoria">>),
            Num(7, 0), Num(8, 0)>>,
          <<Txt(<<"IPTU">>), CelNaN, Num(45, 1)>> >>] >>

NomeRCL(seg) == Prefixo \o seg \o Ext

NomesRCL ==
    {NomeRCL(<<"2", "0", "2", "0">>), NomeRCL(<<"2", "0", "2", "1">>),
     NomeRCL(<<"2", "0", "2", "0", "-", "b">>),
     NomeRCL(<<"9", "9", "9">>),
     NomeRCL(<<"2", "0", "a">>)}

OutrosNomes == {<<"F", "O", "L", "H", "A", "-", "2", "0", "2", "0">> \o Ext}

ArquivosAmostra ==
    {[nome |-> n, folha |-> Folhas[i]] : n \in NomesRCL, i \in 1..Len(Folhas)}
    \cup {[nome |-> n, folha |-> Folhas[3]] : n \in OutrosNomes}

\* the sets of at most k files with different names
RECURSIVE Conjuntos(_)
Conjuntos(k) ==
    IF k = 0 THEN {{}}
    ELSE LET menores == Conjuntos(k - 1)
         IN  menores \cup
             {d \cup {a} : d \in menores,
                           a \in ArquivosAmostra}

Diretorios ==
    {[existe |-> FALSE, arquivos |-> {}]}
    \cup {[existe |-> TRUE, arquivos |-> d] :
            d \in {c \in Conjuntos(MaxArquivos) :
                     \A a, b \in c : a.nome = b.nome => a = b}}

Modos == {"PUNCTUATED", "HINTED"}

----------------------------------------------------------------------------
(* carregar_rcl as a state machine *)

InitCarga ==
    /\ diretorio \in Diretorios
    /\ modo \in Modos
    /\ pc = "ocioso"
    /\ arquivos = <<>>
    /\ indice = 0
    /\ lista_dfs = <<>>
    /\ retornos = <<>>
    /\ ValorParado
    /\ PrevisaoParada

Retorna(erro, tab) == Append(retornos, [erro |-> erro, tabela |-> tab])

\* the two FileNotFoundError the function raises, told apart by their message
ERRO_DIRETORIO == "FileNotFoundError: Diretório não encontrado"

ERRO_SEM_ARQUIVOS == "FileNotFoundError: Nenhum arquivo RCL-*.xls encontrado."

\* a directory that every path is taken to exist in
ExisteSempre(dir) == TRUE

\* caminho.exists()
Existe(dir) == dir.existe

\* a loop whose failing turn is skipped
LevantaNunca(res) == FALSE

\* nothing in the loop catches an exception: a failing turn leaves the function
Levanta(res) == res.erro # ""

\* the first file of the loop that raises, 0 when none does
PrimeiraFalha(res) ==
    IF \E p \in 1..Len(res) : Levanta(res[p])
    THEN CHOOSE p \in 1..Len(res) :
             Levanta(res[p]) /\ \A q \in 1..(p - 1) : ~Levanta(res[q])
    ELSE 0

\* what one call raises or returns
CarregarRcl(dir, md) ==
    IF ~Existe(dir) THEN [erro |-> ERRO_DIRETORIO, tabela |-> <<>>]
    ELSE
    LET nomes == Descobrir(dir)
    IN  IF nomes = <<>> THEN [erro |-> ERRO_SEM_ARQUIVOS, tabela |-> <<>>]
        ELSE
        LET res == [p \in 1..Len(nomes) |->
                       NormalizarArquivo(ArquivoDe(dir, nomes[p]), md)]
            f   == PrimeiraFalha(res)
        IN  IF f # 0 THEN [erro |-> res[f].erro, tabela |-> <<>>]
            ELSE [erro |-> "",
                  tabela |-> Renomear(Concatenar(
                                 [p \in 1..Len(nomes) |-> res[p].regs]))]

\* lines 29-39: the directory check, the discovery, the empty list
Chamar ==
    /\ pc = "ocioso"
    /\ Len(retornos) < MaxChamadas
    /\ IF ~Existe(diretorio)
       THEN /\ retornos' = Retorna(ERRO_DIRETORIO, <<>>)
            /\ UNCHANGED <<pc, arquivos, indice, lista_dfs>>
       ELSE /\ arquivos' = Descobrir(diretorio)
            /\ IF arquivos' = <<>>
               THEN /\ retornos' = Retorna(ERRO_SEM_ARQUIVOS, <<>>)
                    /\ UNCHANGED <<pc, indice, lista_dfs>>
               ELSE /\ lista_dfs' = ListaInicial(lista_dfs)
                    /\ indice' = 0
                    /\ pc' = "laco"
                    /\ UNCHANGED retornos
    /\ UNCHANGED <<diretorio, modo, varsValor, varsPrev>>

\* lines 41-99: one turn of the loop; an exception leaves the function
Iterar ==
    /\ pc = "laco"
    /\ indice < Len(arquivos)
    /\ indice' = indice + 1
    /\ LET arq == ArquivoDe(diretorio, arquivos[indice + 1])
           res == NormalizarArquivo(arq, modo)
       IN  IF Levanta(res)
           THEN /\ retornos' = Retorna(res.erro, <<>>)
                /\ pc' = "ocioso"
                /\ UNCHANGED lista_dfs
           ELSE /\ lista_dfs' = Append(lista_dfs, res.regs)
                /\ UNCHANGED <<pc, retornos>>
    /\ UNCHANGED <<diretorio, modo, arquivos, varsValor, varsPrev>>

\* lines 101-105: concat, relabel, return
Finalizar ==
    /\ pc = "laco"
    /\ indice = Len(arquivos)
    /\ retornos' = Retorna("", Renomear(Concatenar(lista_dfs)))
    /\ pc' = "ocioso"
    /\ UNCHANGED <<diretorio, modo, arquivos, indice, lista_dfs, varsValor, varsPrev>>

Next == Chamar \/ Iterar \/ Finalizar

Spec == InitCarga /\ [][Next]_vars

----------------------------------------------------------------------------
(* The forecast pages: Previsao_Receitas.py and info.previsao.py.          *)
(* A date is the first day of a month, kept as the month's number          *)
(* 12 * year + month - 1; money and model outputs are in thousandths.      *)

TIPOS_TRIBUTARIOS ==
    {<<"IPTU">>, <<"ISS">>, <<"ITBI">>, <<"IRRF">>,
     <<"Outros Impostos, Taxas e Contribuições de Melhoria">>}

TIPOS_COTA ==
    {<<"Cota parte do FPM">>, <<"Cota parte do ICMS">>, <<"Cota parte do IPVA">>,
     <<"Cota parte do ITR">>, <<"Transferências da LC 87/1996">>,
     <<"Transferências da LC 61/1989">>, <<"Transferências do FUNDEB">>,
     <<"Outras transferências correntes">>}

RCL_LABEL == <<"RECEITAS CORRENTES (I)">>

TIPOS_COMPOSICAO == TIPOS_TRIBUTARIOS \cup {RCL_LABEL} \cup TIPOS_COTA

\* the least number of observations the pages accept
MINIMO_MESES == 24

\* the slider's range of years
ANOS_MIN == 1

ANOS_MAX == 5

\* the holdout of Previsao_Receitas, in months
MESES_HOLDOUT == 12

Paginas == {"Previsao_Receitas", "info.previsao"}

IdxData(d) == 12 * d.ano + d.mes - 1

\* a float in thousandths
Milesimos(v) == v.m * Pot10(3 - v.e)

\* y >= 0: a comparison that lets the zeros through
PositivoOuZero(v) == v.tipo = "float" /\ v.m >= 0

\* y > 0 as pandas evaluates it: False for a missing value
Positivo(v) == v.tipo = "float" /\ v.m > 0

RECURSIVE Selecionar(_, _)
Selecionar(tab, esp) ==
    IF tab = <<>> THEN <<>>
    ELSE (IF Head(tab).ESPECIFICACAO = esp
          THEN <<[ds |-> IdxData(Head(tab).MES_ANO), y |-> Head(tab).VALOR]>>
          ELSE <<>>)
         \o Selecionar(Tail(tab), esp)

\* sort_values on a date column; the default sort is not stable, so rows
\* of one date come out in either order (estavel picks which)
RECURSIVE Inserir(_, _, _, _)
Inserir(ord, k, estavel, chaves) ==
    IF ord = <<>> THEN <<k>>
    ELSE IF chaves[Head(ord)] < chaves[k]
            \/ (chaves[Head(ord)] = chaves[k] /\ estavel)
    THEN <<Head(ord)>> \o Inserir(Tail(ord), k, estavel, chaves)
    ELSE <<k>> \o ord

\* the order sort_values puts the rows in: by key, rows of equal key in
\* their original order or in the reverse one (the default sort is not stable)
RECURSIVE Ordem(_, _, _)
Ordem(n, estavel, chaves) ==
    IF n = 0 THEN <<>>
    ELSE Inserir(Ordem(n - 1, estavel, chaves), n, estavel, chaves)

OrdenarPor(tab, estavel, chaves) ==
    LET o == Ordem(Len(tab), estavel, chaves)
    IN  [k \in 1..Len(tab) |-> tab[o[k]]]

OrdenarPorData(tab, estavel) ==
    OrdenarPor(tab, estavel, [k \in 1..Len(tab) |-> tab[k].ds])

\* carregar_dados: the loaded table sorted by MES_ANO (and cached)
CarregarDados(tab, estavel) ==
    OrdenarPor(tab, estavel, [k \in 1..Len(tab) |-> IdxData(tab[k].MES_ANO)])

\* a filter that drops the missing values only
RECURSIVE SoNumeros(_)
SoNumeros(tab) ==
    IF tab = <<>> THEN <<>>
    ELSE (IF Head(tab).y.tipo = "float" THEN <<Head(tab)>> ELSE <<>>)
         \o SoNumeros(Tail(tab))

\* a filter that keeps the zeros
RECURSIVE SoNaoNegativos(_)
SoNaoNegativos(tab) ==
    IF tab = <<>> THEN <<>>
    ELSE (IF Head(tab).y.tipo = "float" /\ Head(tab).y.m >= 0
          THEN <<Head(tab)>> ELSE <<>>)
         \o SoNaoNegativos(Tail(tab))

\* df_modelo[df_modelo["y"] > 0]
RECURSIVE SoPositivos(_)
SoPositivos(tab) ==
    IF tab = <<>> THEN <<>>
    ELSE (IF Positivo(Head(tab).y) THEN <<Head(tab)>> ELSE <<>>)
         \o SoPositivos(Tail(tab))

\* the series the page validates: one specification, sorted, y > 0
PrepararSerie(tab, esp, estavel) ==
    SoPositivos(OrdenarPorData(Selecionar(tab, esp), estavel))

\* a gate at one year of data
InsuficienteDoze(serie) == Len(serie) < 12

\* the test of the gate: too few observations
Insuficiente(serie) == Len(serie) < MINIMO_MESES

DataMax(serie) == CHOOSE d \in {serie[i].ds : i \in 1..Len(serie)} :
                      \A i \in 1..Len(serie) : serie[i].ds <= d

\* the cut date: max(ds) - DateOffset(months = ...)
Corte(pag, serie) ==
    IF pag = "Previsao_Receitas" THEN DataMax(serie) - MESES_HOLDOUT
    ELSE DataMax(serie) - (Len(serie) \div 2)

RECURSIVE Ate(_, _)
Ate(serie, corte) ==
    IF serie = <<>> THEN <<>>
    ELSE (IF Head(serie).ds <= corte THEN <<Head(serie)>> ELSE <<>>)
         \o Ate(Tail(serie), corte)

\* the rows dated on the cut date or after it
RECURSIVE DesdeCorte(_, _)
DesdeCorte(serie, corte) ==
    IF serie = <<>> THEN <<>>
    ELSE (IF Head(serie).ds >= corte THEN <<Head(serie)>> ELSE <<>>)
         \o DesdeCorte(Tail(serie), corte)

RECURSIVE Depois(_, _)
Depois(serie, corte) ==
    IF serie = <<>> THEN <<>>
    ELSE (IF Head(serie).ds > corte THEN <<Head(serie)>> ELSE <<>>)
         \o Depois(Tail(serie), corte)

\* fit given the whole validated series
ArgumentoFitTudo(treino, serie) == serie

\* the frame handed to modelo.fit: the training rows
ArgumentoFit(treino, serie) == treino

\* Prophet.fit refuses a frame with fewer than 2 rows
FitFalha(treino) == Len(treino) < 2

\* make_future_dataframe(periods, freq="MS"): the dates the model was
\* trained on, then the `periods` months after the last of them
RECURSIVE Crescente(_)
Crescente(S) ==
    IF S = {} THEN <<>>
    ELSE LET m == CHOOSE x \in S : \A y \in S : x <= y
         IN  <<m>> \o Crescente(S \ {m})

DatasFuturas(treino, periodos) ==
    LET hist   == {treino[i].ds : i \in 1..Len(treino)}
        ultima == DataMax(treino)
    IN  Crescente(hist) \o [k \in 1..periodos |-> ultima + k]

\* what the fitted model answers, in its own space (log1p of the value for
\* Previsao_Receitas, the value itself for info.previsao): a level, a
\* drift per two years and an interval half-width
Formas ==
    {[base |-> -1, incl |-> -1, larg |-> 1],
     [base |-> 3, incl |-> -1, larg |-> 1],
     [base |-> 3, incl |-> 1, larg |-> 1],
     [base |-> 0, incl |-> 0, larg |-> 0]}

Bruto(forma, d, d0) == forma.base + forma.incl * ((d - d0) \div 24)

\* np.exp of a whole number z in -6..8, in thousandths: an inverse that
\* does not take 0 to 0
ExpMil(z) ==
    <<2, 7, 18, 50, 135, 368, 1000, 2718, 7389, 20086, 54598,
      148413, 403429, 1096633, 2980958>>[z + 7]

\* np.expm1 of a whole number z in -6..8, in thousandths
Expm1Mil(z) ==
    <<-998, -993, -982, -950, -865, -632, 0, 1718, 6389, 19086, 53598,
      147413, 402429, 1095633, 2979958>>[z + 7]

\* an output left as the model gave it
Clip0Nada(x) == x

\* .clip(lower=0)
Clip0(x) == IF x < 0 THEN 0 ELSE x

\* one output of predict as the page keeps it
Saida(pag, z) ==
    IF pag = "Previsao_Receitas" THEN Clip0(Expm1Mil(z)) ELSE Clip0(1000 * z)

Prever(pag, treino, periodos, forma) ==
    LET ds == DatasFuturas(treino, periodos)
        d0 == ds[1]
    IN  [k \in 1..Len(ds) |->
            [ds         |-> ds[k],
             yhat       |-> Saida(pag, Bruto(forma, ds[k], d0)),
             yhat_lower |-> Saida(pag, Bruto(forma, ds[k], d0) - forma.larg),
             yhat_upper |-> Saida(pag, Bruto(forma, ds[k], d0) + forma.larg)]]

\* forecast.merge(test[["ds", "y"]], on="ds", how="inner")
RECURSIVE Juncao(_, _)
Juncao(prev, teste) ==
    IF prev = <<>> THEN <<>>
    ELSE LET iguais == Depois(Ate(teste, Head(prev).ds), Head(prev).ds - 1)
         IN  [k \in 1..Len(iguais) |->
                 [ds |-> Head(prev).ds, y |-> Milesimos(iguais[k].y),
                  yhat |-> Head(prev).yhat]]
             \o Juncao(Tail(prev), teste)

Abs(x) == IF x < 0 THEN -x ELSE x

\* y_true.sum(), the numerator of media_valor
RECURSIVE SomaReais(_)
SomaReais(j) ==
    IF j = <<>> THEN 0 ELSE Head(j).y + SomaReais(Tail(j))

RECURSIVE SomaErros(_)
SomaErros(j) ==
    IF j = <<>> THEN 0 ELSE Abs(Head(j).y - Head(j).yhat) + SomaErros(Tail(j))

\* the metrics' inputs: how many joined points, the sum of the absolute
\* errors (MAE = somaAbs / n), how many points MAPE averages over, the sum
\* of the ground truth (media_valor = somaY / n)
Metricas(j) ==
    [n |-> Len(j), somaAbs |-> SomaErros(j),
     nMape |-> Cardinality({k \in 1..Len(j) : j[k].y # 0}),
     somaY |-> SomaReais(j)]

SemMetricas == [n |-> 0, somaAbs |-> 0, nMape |-> 0, somaY |-> 0]

\* forecast[forecast["ds"] > ultima_data]
Projecoes(prev, serie) == Depois(prev, DataMax(serie))

----------------------------------------------------------------------------
(* The tables the pages are run on *)

MaxMeses == 26

DataDoIndice(i) == [ano |-> i \div 12, mes |-> (i % 12) + 1]

\* January 2020
MesBase == IdxData([ano |-> 2020, mes |-> 1])

Reg(esp, i, v) ==
    [ESPECIFICACAO |-> esp, MES_ANO |-> DataDoIndice(MesBase + i - 1),
     VALOR |-> v, ANO |-> DataDoIndice(MesBase + i - 1).ano]

\* the values that do not count: zero, a negative, a missing cell
ValorRuim(i) ==
    IF i \in {1, MINIMO_MESES - 1} THEN Zero
    ELSE IF i % 2 = 0 THEN Norm(-5, 0) ELSE NaN

\* n months of IPTU from January 2020, the months in `ruins` without a
\* usable value, month `lacuna` absent, month `dup` present twice (as when
\* two files cover it); three months of ISS; one label no page offers
TabelaEntrada(n, ruins, lacuna, dup) ==
    LET meses == Crescente((1..n) \ {lacuna})
    IN  [k \in 1..Len(meses) |->
            Reg(<<"IPTU">>, meses[k],
                IF meses[k] \in ruins THEN ValorRuim(meses[k])
                ELSE Norm(1000 + 10 * meses[k], 0))]
        \o (IF dup = 0 THEN <<>> ELSE <<Reg(<<"IPTU">>, dup, Norm(777, 0))>>)
        \o [k \in 1..3 |-> Reg(<<"ISS">>, k, Norm(50, 0))]
        \o <<Reg(<<"RECEITA TRIBUTÁRIA">>, 1, Norm(9, 0))>>

\* n - 1 months of IPTU from January 2020 and one more, `salto` months
\* after the last of them
TabelaComSalto(n, salto) ==
    [k \in 1..(n - 1) |-> Reg(<<"IPTU">>, k, Norm(1000 + 10 * k, 0))]
    \o <<Reg(<<"IPTU">>, n - 1 + salto, Norm(2000, 0))>>

\* m months of IPTU from January 2020, the first d of them present twice
\* (a label on two rows of a sheet, or a month in two files)
TabelaDobrada(m, d) ==
    [k \in 1..m |-> Reg(<<"IPTU">>, k, Norm(1000 + 10 * k, 0))]
    \o [k \in 1..d |-> Reg(<<"IPTU">>, k, Norm(500 + k, 0))]

Entradas ==
    {TabelaEntrada(n, ruins, lacuna, dup) :
        n \in (MINIMO_MESES - 2)..MaxMeses,
        ruins \in {{}, {1}, {2, 13}, {MINIMO_MESES - 1}},
        lacuna \in {0, 5}, dup \in {0, 7}}
    \cup {TabelaComSalto(n, salto) :
            n \in MINIMO_MESES..MaxMeses, salto \in {MESES_HOLDOUT + 2}}
    \cup {TabelaDobrada(MINIMO_MESES \div 2, MINIMO_MESES \div 2),
            TabelaDobrada(MINIMO_MESES \div 2 + 2, MINIMO_MESES \div 2 - 2)}
    \cup {<<>>, <<Reg(<<"RECEITA TRIBUTÁRIA">>, 1, Norm(9, 0))>>}

----------------------------------------------------------------------------
(* One run of a forecast page *)

InitPrevisao ==
    /\ pagina \in Paginas
    /\ \E e \in Entradas : \E estavel \in BOOLEAN : df = CarregarDados(e, estavel)
    /\ pcPrev = "inicio"
    /\ motivo = ""
    /\ especificacao = <<>>
    /\ anos_previsao = 0
    /\ df_modelo = <<>>
    /\ train = <<>>
    /\ test = <<>>
    /\ ajustes = 0
    /\ treinado = <<>>
    /\ forecast = <<>>
    /\ metricas = SemMetricas
    /\ df_futuro = <<>>
    /\ produzido = {}
    /\ ValorParado
    /\ CargaParada

\* the specifications the selectbox offers
Opcoes(tab) ==
    {tab[k].ESPECIFICACAO : k \in 1..Len(tab)} \cap TIPOS_COMPOSICAO

Para(m) ==
    /\ pcPrev' = "parado"
    /\ motivo' = m

\* from the top of the script to the gate: the widgets' values, the
\* selected series, st.stop() when it is too short
Preparar ==
    /\ pcPrev = "inicio"
    /\ IF pagina = "info.previsao" /\ df = <<>>
       THEN /\ Para("sem dados")
            /\ UNCHANGED <<especificacao, anos_previsao, df_modelo>>
       ELSE IF pagina = "info.previsao" /\ Opcoes(df) = {}
       THEN /\ Para("sem opcoes")
            /\ UNCHANGED <<especificacao, anos_previsao, df_modelo>>
       ELSE /\ anos_previsao' \in ANOS_MIN..ANOS_MAX
            /\ IF Opcoes(df) = {}
               THEN especificacao' = <<>>
               ELSE especificacao' \in Opcoes(df)
            /\ \E estavel \in BOOLEAN :
                 df_modelo' = PrepararSerie(df, especificacao', estavel)
            /\ IF Insuficiente(df_modelo')
               THEN Para("insuficiente")
               ELSE pcPrev' = "dividir" /\ motivo' = ""
    /\ UNCHANGED <<pagina, df, train, test, ajustes, treinado, forecast,
                   metricas, df_futuro, produzido, varsValor, varsCarga>>

\* the split at the cut date
Dividir ==
    /\ pcPrev = "dividir"
    /\ train' = Ate(df_modelo, Corte(pagina, df_modelo))
    /\ test' = Depois(df_modelo, Corte(pagina, df_modelo))
    /\ pcPrev' = "treinar"
    /\ UNCHANGED <<pagina, df, motivo, especificacao, anos_previsao, df_modelo,
                   ajustes, treinado, forecast, metricas, df_futuro, produzido,
                   varsValor, varsCarga>>

\* modelo.fit on the training rows; an exception ends the run
Treinar ==
    /\ pcPrev = "treinar"
    /\ IF FitFalha(train)
       THEN /\ pcPrev' = "erro"
            /\ motivo' = "ValueError"
            /\ UNCHANGED <<ajustes, treinado, produzido>>
       ELSE /\ ajustes' = ajustes + 1
            /\ treinado' = ArgumentoFit(train, df_modelo)
            /\ produzido' = produzido \cup {"ajuste"}
            /\ pcPrev' = "prever"
            /\ UNCHANGED motivo
    /\ UNCHANGED <<pagina, df, especificacao, anos_previsao, df_modelo, train,
                   test, forecast, metricas, df_futuro, varsValor, varsCarga>>

\* make_future_dataframe, predict, the inverse transform and the clip
FazerPrevisao ==
    /\ pcPrev = "prever"
    /\ \E forma \in Formas :
         forecast' = Prever(pagina, treinado, 12 * anos_previsao, forma)
    /\ produzido' = produzido \cup {"previsao"}
    /\ pcPrev' = "metricas"
    /\ UNCHANGED <<pagina, df, motivo, especificacao, anos_previsao, df_modelo,
                   train, test, ajustes, treinado, metricas, df_futuro,
                   varsValor, varsCarga>>

\* the validation metrics, when the join with the test rows is not empty
Validar ==
    /\ pcPrev = "metricas"
    /\ IF test # <<>> /\ Juncao(forecast, test) # <<>>
       THEN /\ metricas' = Metricas(Juncao(forecast, test))
            /\ produzido' = produzido \cup {"metricas"}
       ELSE UNCHANGED <<metricas, produzido>>
    /\ pcPrev' = "grafico"
    /\ UNCHANGED <<pagina, df, motivo, especificacao, anos_previsao, df_modelo,
                   train, test, ajustes, treinado, forecast, df_futuro,
                   varsValor, varsCarga>>

\* st.plotly_chart
Grafico ==
    /\ pcPrev = "grafico"
    /\ produzido' = produzido \cup {"grafico"}
    /\ pcPrev' = "tabela"
    /\ UNCHANGED <<pagina, df, motivo, especificacao, anos_previsao, df_modelo,
                   train, test, ajustes, treinado, forecast, metricas, df_futuro,
                   varsValor, varsCarga>>

\* the table of projected values and its download, when there is a
\* prediction after the last historical date
Projetar ==
    /\ pcPrev = "tabela"
    /\ df_futuro' = Projecoes(forecast, df_modelo)
    /\ IF df_futuro' = <<>>
       THEN UNCHANGED produzido
       ELSE produzido' = produzido \cup {"tabela", "csv"}
    /\ pcPrev' = "fim"
    /\ UNCHANGED <<pagina, df, motivo, especificacao, anos_previsao, df_modelo,
                   train, test, ajustes, treinado, forecast, metricas,
                   varsValor, varsCarga>>

NextPrevisao ==
    Preparar \/ Dividir \/ Treinar \/ FazerPrevisao \/ Validar \/ Grafico
    \/ Projetar

SpecPrevisao == InitPrevisao /\ [][NextPrevisao]_vars

----------------------------------------------------------------------------
(* What the claims are stated with *)

\* the call that last finished returned a table; lista_dfs and arquivos
\* are still those of that call
RetornouTabela ==
    pc = "ocioso" /\ retornos # <<>> /\ retornos[Len(retornos)].erro = ""

TabelaRetornada == retornos[Len(retornos)].tabela

RECURSIVE SomaLens(_)
SomaLens(lista) ==
    IF lista = <<>> THEN 0 ELSE Len(Head(lista)) + SomaLens(Tail(lista))

\* where file number p's records start in the returned table
Desloc(p) == SomaLens(SubSeq(lista_dfs, 1, p - 1))

FolhaDe(p) == ArquivoDe(diretorio, arquivos[p]).folha

EhRemovida(h) == Strip(h) \in COLUNAS_REMOVIDAS

EhMes(h) == Contem(h, "/")

\* the rows of a sheet with a cell that is not missing outside TOTAL/Previsão
LinhasNaoVazias(f) ==
    {i \in 1..Len(f.linhas) :
        \E j \in 1..Len(f.colunas) :
            ~EhRemovida(f.colunas[j]) /\ f.linhas[i][j].kind # "nan"}

ColunasDeMes(f) == {j \in 1..Len(f.colunas) : EhMes(f.colunas[j])}

ColunaRotulo(f) == CHOOSE j \in 1..Len(f.colunas) : Strip(f.colunas[j]) = ColEspec

\* the year a file name writes between "RCL-" and the next "-" or "."
NomeEscreveAno(nome, ano) ==
    LET ds == IntParaDigitos(ano)
    IN  /\ Len(nome) > Len(Prefixo) + Len(ds)
        /\ SubSeq(nome, Len(Prefixo) + 1, Len(Prefixo) + Len(ds)) = ds
        /\ nome[Len(Prefixo) + Len(ds) + 1] \in {"-", "."}

\* the year a month header writes after its "/"
CabecalhoEscreveAno(h, ano) ==
    LET t == Strip(h)
        b == CHOOSE i \in 1..Len(t) : t[i] = "/"
    IN  SubSeq(t, b + 1, Len(t)) = IntParaDigitos(ano)

\* the 4-digit years the sample file names and headers write
AnosAmostra == {2020, 2021}

SemRotulo(r) == [r EXCEPT !.ESPECIFICACAO = <<>>]

----------------------------------------------------------------------------
(* C1 *)

\* C1: normalizing one file with N rows that are not wholly empty and M
\* month columns emits exactly N*M records, each with ANO equal to the year
\* its file name writes, whatever year the month header names.
C1_RegistrosPorArquivo ==
    \A p \in 1..Len(lista_dfs) :
        /\ Len(lista_dfs[p]) =
             Cardinality(LinhasNaoVazias(FolhaDe(p)))
               * Cardinality(ColunasDeMes(FolhaDe(p)))
        /\ \A k \in 1..Len(lista_dfs[p]) :
             NomeEscreveAno(arquivos[p], lista_dfs[p][k].ANO)

\* a file of 2 rows and 2 month columns whose headers name another year
C1_Witness ==
    \E p \in 1..Len(lista_dfs) :
        /\ Cardinality(LinhasNaoVazias(FolhaDe(p))) >= 2
        /\ Cardinality(ColunasDeMes(FolhaDe(p))) >= 2
        /\ Cardinality(LinhasNaoVazias(FolhaDe(p))) < Len(FolhaDe(p).linhas)
        /\ \E k \in 1..Len(lista_dfs[p]) :
             lista_dfs[p][k].MES_ANO.ano # lista_dfs[p][k].ANO

----------------------------------------------------------------------------
(* C2 *)

\* C2: the returned table is the concatenation of the per-file record
\* sequences in lexical file-name order (ascending year for 4-digit years),
\* each file's records in emission order; nothing is dropped, deduplicated
\* or reordered, and the count is the sum of the per-file counts.
C2_Concatenacao ==
    RetornouTabela =>
        /\ {arquivos[p] : p \in 1..Len(arquivos)}
             = {a.nome : a \in {x \in diretorio.arquivos :
                    /\ Len(x.nome) > 8
                    /\ SubSeq(x.nome, 1, 4) = <<"R", "C", "L", "-">>
                    /\ SubSeq(x.nome, Len(x.nome) - 3, Len(x.nome))
                         = <<".", "x", "l", "s">>}}
        /\ \A p, q \in 1..Len(arquivos) :
             p < q =>
               /\ LexMenor(arquivos[p], arquivos[q])
               /\ \A a, b \in AnosAmostra :
                    (NomeEscreveAno(arquivos[p], a)
                      /\ NomeEscreveAno(arquivos[q], b)) => a <= b
        /\ Len(lista_dfs) = Len(arquivos)
        /\ Len(TabelaRetornada) = SomaLens(lista_dfs)
        /\ \A p \in 1..Len(lista_dfs) : \A j \in 1..Len(lista_dfs[p]) :
             SemRotulo(TabelaRetornada[Desloc(p) + j])
               = SemRotulo(lista_dfs[p][j])

\* two files with the same (specification, month) pair, both records kept
C2_Witness ==
    /\ RetornouTabela
    /\ Len(arquivos) = 2
    /\ Len(lista_dfs[1]) > 0
    /\ \E j \in 1..Len(lista_dfs[1]) : \E k \in 1..Len(lista_dfs[2]) :
         /\ TabelaRetornada[j] = TabelaRetornada[Desloc(2) + k]
         /\ lista_dfs[1][j] = lista_dfs[2][k]

----------------------------------------------------------------------------
(* C3 *)

\* C3: relabelling is total and stable: a record whose trimmed
\* specification is a key of RENOMEANDO_COLUNAS gets the mapped value, any
\* other record keeps its trimmed input label; no other field changes and
\* no record is added or removed.
C3_Renomeacao ==
    RetornouTabela =>
        /\ Len(TabelaRetornada) = SomaLens(lista_dfs)
        /\ \A p \in 1..Len(lista_dfs) : \A j \in 1..Len(lista_dfs[p]) :
             LET antes  == lista_dfs[p][j]
                 depois == TabelaRetornada[Desloc(p) + j]
                 f      == FolhaDe(p)
             IN  /\ \A i \in 1..Len(RENOMEANDO_COLUNAS) :
                        antes.ESPECIFICACAO = RENOMEANDO_COLUNAS[i].de
                          => depois.ESPECIFICACAO = RENOMEANDO_COLUNAS[i].para
                 /\ (\A i \in 1..Len(RENOMEANDO_COLUNAS) :
                        antes.ESPECIFICACAO # RENOMEANDO_COLUNAS[i].de)
                          => depois.ESPECIFICACAO = antes.ESPECIFICACAO
                 /\ SemRotulo(depois) = SemRotulo(antes)
                 /\ \E i \in LinhasNaoVazias(f) :
                        LET c == f.linhas[i][ColunaRotulo(f)]
                        IN  antes.ESPECIFICACAO =
                              (IF c.kind = "nan" THEN <<"nan">> ELSE Strip(c.s))

\* a returned table with a relabelled record, whose input label had blanks
\* around it, and a record whose label passed through
C3_Witness ==
    /\ RetornouTabela
    /\ \E p \in 1..Len(lista_dfs) :
         /\ \E i \in LinhasNaoVazias(FolhaDe(p)) :
              LET c == FolhaDe(p).linhas[i][ColunaRotulo(FolhaDe(p))]
              IN  c.kind = "str" /\ c.s # Strip(c.s) /\ Strip(c.s) \in Chaves
         /\ \E j, k \in 1..Len(lista_dfs[p]) :
              /\ TabelaRetornada[Desloc(p) + j].ESPECIFICACAO
                   # lista_dfs[p][j].ESPECIFICACAO
              /\ TabelaRetornada[Desloc(p) + k].ESPECIFICACAO
                   = lista_dfs[p][k].ESPECIFICACAO

----------------------------------------------------------------------------
(* C4 *)

\* C4: no record of a returned table carries a specification that is a key
\* of the relabel map.
C4_SemRotuloAntigo ==
    \A r \in 1..Len(retornos) : \A k \in 1..Len(retornos[r].tabela) :
        \A i \in 1..Len(RENOMEANDO_COLUNAS) :
            Strip(retornos[r].tabela[k].ESPECIFICACAO) # RENOMEANDO_COLUNAS[i].de

\* a returned table built from a file that carried a key of the map
C4_Witness ==
    /\ RetornouTabela
    /\ \E p \in 1..Len(lista_dfs) : \E j \in 1..Len(lista_dfs[p]) :
         \E i \in 1..Len(RENOMEANDO_COLUNAS) :
            /\ lista_dfs[p][j].ESPECIFICACAO = RENOMEANDO_COLUNAS[i].de
            /\ TabelaRetornada[Desloc(p) + j].ESPECIFICACAO
                 = RENOMEANDO_COLUNAS[i].para

----------------------------------------------------------------------------
(* C5 *)

\* C5 as claimed: every record of a returned table has ANO equal to the
\* year of its MES_ANO.
C5_AnoIgualAnoDoMes ==
    \A r \in 1..Len(retornos) : \A k \in 1..Len(retornos[r].tabela) :
        retornos[r].tabela[k].ANO = retornos[r].tabela[k].MES_ANO.ano

\* C5 as amended: a record of a returned table has ANO equal to the year of
\* its MES_ANO exactly when the month header it comes from names the year
\* its file name writes; so the equality holds for every record of a load
\* whose month headers all name their file's year.
C5_AnoDoArquivo ==
    RetornouTabela =>
        \A p \in 1..Len(lista_dfs) : \A j \in 1..Len(lista_dfs[p]) :
            LET d == TabelaRetornada[Desloc(p) + j]
            IN  /\ (d.ANO = d.MES_ANO.ano)
                     <=> NomeEscreveAno(arquivos[p], d.MES_ANO.ano)
                /\ (\A c \in ColunasDeMes(FolhaDe(p)) :
                       \E a \in AnosAmostra :
                          /\ CabecalhoEscreveAno(FolhaDe(p).colunas[c], a)
                          /\ NomeEscreveAno(arquivos[p], a))
                     => d.ANO = d.MES_ANO.ano

\* a load of two files whose headers all name their file's year
C5_Witness ==
    /\ RetornouTabela
    /\ Len(arquivos) = 2
    /\ \A p \in 1..Len(lista_dfs) :
         /\ lista_dfs[p] # <<>>
         /\ \A c \in ColunasDeMes(FolhaDe(p)) : \E a \in AnosAmostra :
              /\ CabecalhoEscreveAno(FolhaDe(p).colunas[c], a)
              /\ NomeEscreveAno(arquivos[p], a)
    /\ \A k \in 1..Len(TabelaRetornada) :
         TabelaRetornada[k].ANO = TabelaRetornada[k].MES_ANO.ano

----------------------------------------------------------------------------
(* C6 *)

TemParenteses(c) == c.kind = "str" /\ Contem(c.s, "(") /\ Contem(c.s, ")")

SemParenteses(c) == CelStr(Apagar(Apagar(c.s, "("), ")"))

\* C6: for a text with "(" and ")" around a number written with "." for
\* thousands and "," for decimals, converter_valor returns the negation of
\* what it returns for the same text without the parentheses;
\* "(1.234,56)" gives -1234.56.
C6_ParentesesNegam ==
    pcValor = "fim" =>
        /\ (TemParenteses(valor)
              /\ converter_valor(SemParenteses(valor)).tipo = "float")
             => /\ retorno.tipo = "float"
                /\ retorno.e = converter_valor(SemParenteses(valor)).e
                /\ retorno.m = 0 - converter_valor(SemParenteses(valor)).m
        /\ \A n \in IntAmostras : \A d \in DecAmostras :
             valor = CelStr(Parenteses(FormatBR(n, d)))
               => /\ retorno.tipo = "float"
                  /\ retorno.e = ValorBR(n, d).e
                  /\ retorno.m = 0 - ValorBR(n, d).m
        /\ valor = CelStr(<<"(", "1", ".", "2", "3", "4", ",", "5", "6", ")">>)
             => retorno = [tipo |-> "float", m |-> -123456, e |-> 2]

\* "(1.234,56)" has been converted
C6_Witness ==
    /\ pcValor = "fim"
    /\ valor = CelStr(<<"(", "1", ".", "2", "3", "4", ",", "5", "6", ")">>)
    /\ retorno.tipo = "float"
    /\ retorno.m < 0

----------------------------------------------------------------------------
(* C7 *)

\* C7: for a text without parentheses written with "." for thousands and
\* "," for decimals, converter_valor returns the number read after deleting
\* every "." and taking "," as the decimal point ("1.234,56" gives
\* 1234.56); for an input that is already a number it returns that number,
\* sign unchanged.
C7_TextoENumero ==
    pcValor = "fim" =>
        /\ \A n \in IntAmostras : \A d \in DecAmostras :
             /\ valor = CelStr(FormatBR(n, d))
                  => retorno = ValorBR(n, d)
             /\ valor = CelStr(<<"-">> \o FormatBR(n, d))
                  => /\ retorno.tipo = "float"
                     /\ retorno.e = ValorBR(n, d).e
                     /\ retorno.m = 0 - ValorBR(n, d).m
        /\ valor = CelStr(<<"1", ".", "2", "3", "4", ",", "5", "6">>)
             => retorno = [tipo |-> "float", m |-> 123456, e |-> 2]
        /\ (valor.kind = "num" /\ valor.v.tipo = "float") => retorno = valor.v

\* "1.234,56" has been converted
C7_Witness ==
    /\ pcValor = "fim"
    /\ valor = CelStr(<<"1", ".", "2", "3", "4", ",", "5", "6">>)
    /\ retorno.tipo = "float"
    /\ retorno.m > 0

----------------------------------------------------------------------------
(* C8 *)

\* C8: converter_valor returns 0 for a missing cell, so in the PUNCTUATED
\* loader a missing month cell of a row that is kept still gives a record,
\* with VALOR 0.0: it is neither dropped nor left missing.
C8_CelulaFaltante ==
    modo = "PUNCTUATED" =>
        /\ \A p \in 1..Len(lista_dfs) :
             LET f == FolhaDe(p)
             IN  /\ \A k \in 1..Len(lista_dfs[p]) :
                        lista_dfs[p][k].VALOR.tipo = "float"
                 /\ \A i \in LinhasNaoVazias(f) : \A j \in ColunasDeMes(f) :
                        f.linhas[i][j].kind = "nan" =>
                          \E k \in 1..Len(lista_dfs[p]) :
                            /\ lista_dfs[p][k].VALOR = [tipo |-> "float", m |-> 0, e |-> 0]
                            /\ CabecalhoEscreveAno(f.colunas[j],
                                                   lista_dfs[p][k].MES_ANO.ano)
                            /\ LET c == f.linhas[i][ColunaRotulo(f)]
                               IN  lista_dfs[p][k].ESPECIFICACAO =
                                     (IF c.kind = "nan" THEN <<"nan">> ELSE Strip(c.s))
                            /\ RetornouTabela =>
                                 TabelaRetornada[Desloc(p) + k].VALOR
                                   = [tipo |-> "float", m |-> 0, e |-> 0]
        /\ \A r \in 1..Len(retornos) : \A k \in 1..Len(retornos[r].tabela) :
             retornos[r].tabela[k].VALOR.tipo = "float"

\* a table returned by the PUNCTUATED loader from a sheet with a missing
\* month cell in a kept row
C8_Witness ==
    /\ modo = "PUNCTUATED"
    /\ RetornouTabela
    /\ \E p \in 1..Len(lista_dfs) :
         \E i \in LinhasNaoVazias(FolhaDe(p)) : \E j \in ColunasDeMes(FolhaDe(p)) :
            /\ FolhaDe(p).linhas[i][j].kind = "nan"
            /\ \E k \in 1..Len(lista_dfs[p]) :
                 TabelaRetornada[Desloc(p) + k].VALOR.m = 0

----------------------------------------------------------------------------
(* C9 *)

\* C9: carregar_rcl is idempotent: every call on the unchanged directory
\* ends as the first one did, with the same records in the same
\* multiplicity (or the same error); a later call owes nothing to an
\* earlier one.
C9_Idempotente ==
    \A a, b \in 1..Len(retornos) : retornos[a] = retornos[b]

\* a second call has returned a table with records
C9_Witness ==
    /\ Len(retornos) >= 2
    /\ retornos[2].erro = ""
    /\ Len(retornos[2].tabela) >= 2
    /\ Len(arquivos) = 2

\* the rows of the loaded table that are of the selected specification
LinhasSelecionadas ==
    {k \in 1..Len(df) : df[k].ESPECIFICACAO = especificacao}

\* how many of them carry a value greater than zero
ObservacoesValidas ==
    Cardinality({k \in LinhasSelecionadas : Positivo(df[k].VALOR)})

\* the run went through the validation of the selected series
Validou ==
    /\ pcPrev \notin {"fora", "inicio"}
    /\ motivo \notin {"sem dados", "sem opcoes"}

----------------------------------------------------------------------------
(* C11 *)

\* how many rows of the loaded table have this specification, date and value
VezesNaTabela(esp, d, v) ==
    Cardinality({k \in 1..Len(df) :
                   /\ df[k].ESPECIFICACAO = esp
                   /\ IdxData(df[k].MES_ANO) = d
                   /\ df[k].VALOR = v})

VezesNaSerie(d, v) ==
    Cardinality({k \in 1..Len(df_modelo) :
                   df_modelo[k].ds = d /\ df_modelo[k].y = v})

----------------------------------------------------------------------------
(* C12 *)

\* the positions of the script after modelo.fit returned
DepoisDoAjuste == {"prever", "metricas", "grafico", "tabela", "fim"}

----------------------------------------------------------------------------
(* C13 *)

\* C13 as claimed: with a horizon of H = 12 * anos_previsao months, the
\* prediction covers every date of the validated series and the H months
\* after its last date, so the table of projected values of a finished run
\* holds exactly H rows, all dated after the last historical date.
C13_HorizonteCompleto ==
    pcPrev = "fim" =>
        /\ \A k \in 1..Len(df_modelo) :
             \E p \in 1..Len(forecast) : forecast[p].ds = df_modelo[k].ds
        /\ \A h \in 1..(12 * anos_previsao) :
             \E p \in 1..Len(forecast) :
               forecast[p].ds = DataMax(df_modelo) + h
        /\ Len(df_futuro) = 12 * anos_previsao
        /\ \A k \in 1..Len(df_futuro) : df_futuro[k].ds > DataMax(df_modelo)

\* what the pages do: the prediction ends H months after the last TRAINING
\* date, so the table holds the H rows less the months held out (none when
\* the holdout is as long as the horizon)
C13_HorizonteDoTreino ==
    pcPrev = "fim" =>
        LET atraso == DataMax(df_modelo) - DataMax(treinado)
        IN  /\ Len(df_futuro) = Clip0(12 * anos_previsao - atraso)
            /\ \A k \in 1..Len(df_futuro) : df_futuro[k].ds > DataMax(df_modelo)

\* a finished run of Previsao_Receitas with a horizon of one year and no
\* projected value at all
C13_SemProjecao ==
    /\ pcPrev = "fim"
    /\ pagina = "Previsao_Receitas"
    /\ anos_previsao = 1
    /\ df_futuro = <<>>
    /\ {"tabela", "csv"} \cap produzido = {}

----------------------------------------------------------------------------
(* C14 *)

\* C14: in both pages, whatever the fitted model answers, no yhat,
\* yhat_lower or yhat_upper of the prediction or of the table of projected
\* values is below zero.
C14_NuncaNegativo ==
    /\ \A k \in 1..Len(forecast) :
         /\ forecast[k].yhat >= 0
         /\ forecast[k].yhat_lower >= 0
         /\ forecast[k].yhat_upper >= 0
    /\ \A k \in 1..Len(df_futuro) :
         /\ df_futuro[k].yhat >= 0
         /\ df_futuro[k].yhat_lower >= 0
         /\ df_futuro[k].yhat_upper >= 0

\* a table of projected values from a model whose own answer was below
\* zero for one of its rows
C14_Witness ==
    /\ pcPrev = "fim"
    /\ df_futuro # <<>>
    /\ \E forma \in Formas :
         /\ forecast = Prever(pagina, treinado, 12 * anos_previsao, forma)
         /\ \E k \in 1..Len(forecast) :
              /\ forecast[k].ds > DataMax(df_modelo)
              /\ Bruto(forma, forecast[k].ds, forecast[1].ds) - forma.larg < 0

----------------------------------------------------------------------------
(* C15 *)

\* the positions of the script after the split
DepoisDaDivisao == {"treinar", "erro"} \cup DepoisDoAjuste

\* the last date of the validated series
UltimaData ==
    CHOOSE d \in {df_modelo[k].ds : k \in 1..Len(df_modelo)} :
        \A k \in 1..Len(df_modelo) : df_modelo[k].ds <= d

\* C15: in Previsao_Receitas the test set is exactly the rows of the
\* validated series dated after (last date - 12 months) and the training set
\* exactly the other rows: the series is the training rows followed by the
\* test rows, every training date is before every test date, and the test
\* rows are the observations of the 12 calendar months that end at the last
\* date, the last one among them.
C15_HoldoutDozeMeses ==
    (pagina = "Previsao_Receitas" /\ pcPrev \in DepoisDaDivisao) =>
        LET corte == UltimaData - 12
        IN  /\ train \o test = df_modelo
            /\ \A k \in 1..Len(test) :
                 test[k].ds > corte /\ test[k].ds <= corte + 12
            /\ \A k \in 1..Len(train) : train[k].ds <= corte
            /\ \A i \in 1..Len(train) : \A j \in 1..Len(test) :
                 train[i].ds < test[j].ds
            /\ Len(test) =
                 Cardinality({k \in 1..Len(df_modelo) : df_modelo[k].ds > corte})
            /\ \E k \in 1..Len(test) : test[k].ds = corte + 12

\* a split in Previsao_Receitas of a series of one row a month, with a row
\* dated exactly on the cut date: 12 test rows, the row of the cut date in
\* the training set
C15_Witness ==
    /\ pagina = "Previsao_Receitas"
    /\ pcPrev = "treinar"
    /\ Len(test) = 12
    /\ Len(train) >= 12
    /\ \E k \in 1..Len(train) : train[k].ds = UltimaData - 12

----------------------------------------------------------------------------
(* C16 *)

\* C16 as claimed: in info.previsao, for a validated series of n rows the
\* training set holds n - floor(n/2) rows and the test set floor(n/2), the
\* numbers meses_treino and meses_teste the page reports.
C16_MetadeMetade ==
    (pagina = "info.previsao" /\ pcPrev \in DepoisDaDivisao) =>
        /\ Len(test) = Len(df_modelo) \div 2
        /\ Len(train) = Len(df_modelo) - (Len(df_modelo) \div 2)

\* a split in info.previsao of 24 valid rows over 25 months, the month
\* without a usable value among the last 12: 13 training rows and 11 test
\* rows where the page reports 12 and 12
C16_TrezeOnze ==
    /\ pagina = "info.previsao"
    /\ pcPrev = "treinar"
    /\ Len(df_modelo) = 24
    /\ UltimaData - df_modelo[1].ds = 24
    /\ Len(train) = 13
    /\ Len(test) = 11

----------------------------------------------------------------------------
(* C17 *)

\* the pairs (prediction row, held-out row) of one date
ParesDaJuncao ==
    {par \in (1..Len(forecast)) \X (1..Len(test)) :
        forecast[par[1]].ds = test[par[2]].ds}

\* the metrics are over the joined dates and over nothing else; without a
\* joined date there are none, and the run goes on
MetricasSobreAJuncao ==
    pcPrev \in {"grafico", "tabela", "fim"} =>
        /\ ("metricas" \in produzido) = (ParesDaJuncao # {})
        /\ metricas.n = Cardinality(ParesDaJuncao)
        /\ motivo = ""

\* C17 as claimed: the validation metrics are computed over the dates that
\* have both a prediction and a held-out value and over no other; when the
\* test set or the join is empty they are omitted without a failure, and the
\* finished run still has its chart, its table of projected values and its
\* CSV export.
C17_SemMetricasComTabela ==
    /\ MetricasSobreAJuncao
    /\ (pcPrev = "fim" /\ "metricas" \notin produzido) =>
         {"grafico", "tabela", "csv"} \subseteq produzido

\* what the pages do: a finished run without metrics has its chart, but
\* neither the table nor the export
C17_SemMetricasSemTabela ==
    /\ MetricasSobreAJuncao
    /\ (pcPrev = "fim" /\ "metricas" \notin produzido) =>
         /\ "grafico" \in produzido
         /\ {"tabela", "csv"} \cap produzido = {}
         /\ df_futuro = <<>>

\* a finished run whose held-out row is dated after every predicted date:
\* no metrics, a chart, no table, no export
C17_JuncaoVazia ==
    /\ pcPrev = "fim"
    /\ motivo = ""
    /\ test # <<>>
    /\ ParesDaJuncao = {}
    /\ produzido = {"ajuste", "previsao", "grafico"}

----------------------------------------------------------------------------
(* C18 *)

\* C18: on a directory that does not exist every call ends with the
\* directory-not-found error and no table, with no file discovered and none
\* read; and that error is raised for no directory that exists.
C18_DiretorioInexistente ==
    /\ ~diretorio.existe =>
         /\ pc = "ocioso"
         /\ arquivos = <<>>
         /\ indice = 0
         /\ lista_dfs = <<>>
         /\ \A c \in 1..Len(retornos) :
              /\ retornos[c].erro = "FileNotFoundError: Diretório não encontrado"
              /\ retornos[c].tabela = <<>>
    /\ diretorio.existe =>
         \A c \in 1..Len(retornos) :
            retornos[c].erro # "FileNotFoundError: Diretório não encontrado"

\* a call that ended on a directory that does not exist
C18_Witness ==
    /\ ~diretorio.existe
    /\ retornos # <<>>
    /\ pc = "ocioso"

----------------------------------------------------------------------------
(* C19 *)

\* a name of the form RCL-*.xls
NomeRclXls(nome) ==
    /\ Len(nome) >= 8
    /\ SubSeq(nome, 1, 4) = <<"R", "C", "L", "-">>
    /\ SubSeq(nome, Len(nome) - 3, Len(nome)) = <<".", "x", "l", "s">>

SemArquivoRcl == \A a \in diretorio.arquivos : ~NomeRclXls(a.nome)

\* C19: on a directory that exists and holds no file named RCL-*.xls every
\* call ends with the no-matching-files error and no table, never with a
\* table, empty or not; and that error is raised in no other case.
C19_SemArquivos ==
    /\ (diretorio.existe /\ SemArquivoRcl) =>
         /\ pc = "ocioso"
         /\ indice = 0
         /\ lista_dfs = <<>>
         /\ \A c \in 1..Len(retornos) :
              /\ retornos[c].erro
                   = "FileNotFoundError: Nenhum arquivo RCL-*.xls encontrado."
              /\ retornos[c].tabela = <<>>
    /\ \A c \in 1..Len(retornos) :
         retornos[c].erro
           = "FileNotFoundError: Nenhum arquivo RCL-*.xls encontrado."
         => (diretorio.existe /\ SemArquivoRcl)

\* a call that ended on a directory that holds a file, but none named
\* RCL-*.xls
C19_Witness ==
    /\ diretorio.existe
    /\ diretorio.arquivos # {}
    /\ SemArquivoRcl
    /\ retornos # <<>>

----------------------------------------------------------------------------
(* C20 *)

\* the file name writes no year: between "RCL-" and the next "-" or "."
\* stands something else than digits
NomeSemAno(nome) ==
    ~ \E n \in 1..(Len(nome) - 5) :
        /\ \A i \in 5..(4 + n) : EhDigito(nome[i])
        /\ nome[5 + n] \in {"-", "."}

\* the sheet has no column ESPECIFICAÇÃO
FolhaSemRotulo(f) ==
    ~ \E j \in 1..Len(f.colunas) : Strip(f.colunas[j]) = ColEspec

\* a month column holds a text with a letter in it
FolhaComLetra(f) ==
    \E i \in 1..Len(f.linhas) : \E j \in ColunasDeMes(f) :
        /\ f.linhas[i][j].kind = "str"
        /\ \E k \in 1..Len(f.linhas[i][j].s) :
             f.linhas[i][j].s[k] \in {"n", "d", "x"}

TemDefeito(a) ==
    NomeSemAno(a.nome) \/ FolhaSemRotulo(a.folha) \/ FolhaComLetra(a.folha)

\* C20: when one of the files named RCL-*.xls cannot be normalized (its
\* name writes no year, its sheet has no label column, a month cell is no
\* number), every call fails and returns no table, whatever the other files
\* gave; and no failed call returns any record.
C20_SemSucessoParcial ==
    \A c \in 1..Len(retornos) :
        /\ (\E a \in diretorio.arquivos : NomeRclXls(a.nome) /\ TemDefeito(a))
             => retornos[c].erro # ""
        /\ retornos[c].erro # "" => retornos[c].tabela = <<>>

\* a call that failed on its second file after its first gave records
C20_Witness ==
    /\ pc = "ocioso"
    /\ retornos # <<>>
    /\ retornos[Len(retornos)].erro \in {"ValueError", "KeyError"}
    /\ indice = 2
    /\ Len(lista_dfs) = 1
    /\ lista_dfs[1] # <<>>

----------------------------------------------------------------------------
(* C21 *)

\* the name writes four digits, and no more, after "RCL-"
NomeComQuatroDigitos(nome) ==
    /\ Len(nome) >= 9
    /\ \A i \in 5..8 : EhDigito(nome[i])
    /\ nome[9] \in {"-", "."}

\* C21 as claimed: when a file named RCL-*.xls writes anything else than a
\* 4-digit integer as its year, the call fails; and no record of a returned
\* table has an ANO that is not a 4-digit integer.
C21_AnoDeQuatroDigitos ==
    \A c \in 1..Len(retornos) :
        /\ (\E a \in diretorio.arquivos :
              NomeRclXls(a.nome) /\ ~NomeComQuatroDigitos(a.nome))
             => retornos[c].erro # ""
        /\ \A k \in 1..Len(retornos[c].tabela) :
             retornos[c].tabela[k].ANO \in 1000..9999

\* what the loaders do: a year segment that is not made of digits fails the
\* call, one made of digits is taken whatever its length
C21_AnoInteiro ==
    \A c \in 1..Len(retornos) :
        /\ (\E a \in diretorio.arquivos :
              NomeRclXls(a.nome) /\ NomeSemAno(a.nome))
             => retornos[c].erro # ""
        /\ \A k \in 1..Len(retornos[c].tabela) :
             \E a \in diretorio.arquivos :
                NomeEscreveAno(a.nome, retornos[c].tabela[k].ANO)

\* a table returned from RCL-999.xls, its records in the year 999
C21_Ano999 ==
    /\ RetornouTabela
    /\ \E k \in 1..Len(TabelaRetornada) : TabelaRetornada[k].ANO = 999

----------------------------------------------------------------------------
(* C22 *)

ArquivosRcl == {a \in diretorio.arquivos : NomeRclXls(a.nome)}

\* the header writes the month m of the year ano as MM/YYYY
CabecalhoEscreve(h, m, ano) == Strip(h) = Mes(m, ano)

CabecalhoBom(h) ==
    \E m \in 1..12 : \E ano \in AnosAmostra : CabecalhoEscreve(h, m, ano)

\* a header with "/" that is no MM/YYYY date
CabecalhoRuim(h) == EhMes(h) /\ ~CabecalhoBom(h)

\* every month cell of the sheet is a number or is missing
FolhaSoNumeros(f) ==
    \A i \in 1..Len(f.linhas) : \A j \in ColunasDeMes(f) :
        f.linhas[i][j].kind # "str"

\* the directory holds files to load, and nothing is wrong with them but,
\* maybe, a month header
SoCabecalhosPodemFalhar ==
    /\ diretorio.existe
    /\ ArquivosRcl # {}
    /\ \A a \in ArquivosRcl :
         /\ ~NomeSemAno(a.nome)
         /\ ~FolhaSemRotulo(a.folha)
         /\ FolhaSoNumeros(a.folha)

TemCabecalhoRuim(f) ==
    \E j \in 1..Len(f.colunas) : CabecalhoRuim(f.colunas[j])

\* C22 as claimed: a month column whose header holds "/" but is no MM/YYYY
\* date is skipped: the call does not fail, and for every row that is not
\* empty the records of the well-formed month columns are returned.
C22_CabecalhoIgnorado ==
    SoCabecalhosPodemFalhar =>
        \A c \in 1..Len(retornos) :
            /\ retornos[c].erro = ""
            /\ \A a \in ArquivosRcl : \A j \in ColunasDeMes(a.folha) :
                 \A m \in 1..12 : \A ano \in AnosAmostra :
                    (CabecalhoEscreve(a.folha.colunas[j], m, ano)
                       /\ LinhasNaoVazias(a.folha) # {})
                    => \E k \in 1..Len(retornos[c].tabela) :
                          retornos[c].tabela[k].MES_ANO = [ano |-> ano, mes |-> m]

\* what the loaders do: such a header in a file with a row that is not
\* empty fails the call with the ValueError of pd.to_datetime, and no record
\* of any file is returned
C22_CabecalhoAborta ==
    (SoCabecalhosPodemFalhar
       /\ \E a \in ArquivosRcl :
            TemCabecalhoRuim(a.folha) /\ LinhasNaoVazias(a.folha) # {})
    => \A c \in 1..Len(retornos) :
          retornos[c].erro = "ValueError" /\ retornos[c].tabela = <<>>

\* a failed call on files that have nothing wrong but the header 13/2020,
\* next to a well-formed month column with a value
C22_FalhaPeloCabecalho ==
    /\ SoCabecalhosPodemFalhar
    /\ pc = "ocioso"
    /\ retornos # <<>>
    /\ retornos[Len(retornos)].erro = "ValueError"
    /\ \E a \in ArquivosRcl :
         /\ TemCabecalhoRuim(a.folha)
         /\ LinhasNaoVazias(a.folha) # {}
         /\ \E j \in ColunasDeMes(a.folha) : CabecalhoBom(a.folha.colunas[j])

----------------------------------------------------------------------------
(* C23 *)

\* C23 as claimed: when a file named RCL-*.xls has no row left after its
\* headers were trimmed, TOTAL and Previsão dropped and the empty rows
\* dropped, the call fails; no such file adds zero records to a returned
\* table.
C23_ArquivoVazioFalha ==
    (diretorio.existe
       /\ \E a \in ArquivosRcl : LinhasNaoVazias(a.folha) = {})
    => \A c \in 1..Len(retornos) : retornos[c].erro # ""

\* a table returned from two files, one of them with no row left: the
\* table holds the records of the other file and nothing tells of the first
C23_VazioCalado ==
    /\ RetornouTabela
    /\ Len(lista_dfs) = 2
    /\ \E p, q \in 1..2 :
         /\ LinhasNaoVazias(FolhaDe(p)) = {}
         /\ lista_dfs[p] = <<>>
         /\ lista_dfs[q] # <<>>
         /\ Len(TabelaRetornada) = Len(lista_dfs[q])

----------------------------------------------------------------------------
(* C24 *)

\* the directory holds files to load, and nothing is wrong with them but,
\* maybe, the text of a month cell
SoCelulasPodemFalhar ==
    /\ diretorio.existe
    /\ ArquivosRcl # {}
    /\ \A a \in ArquivosRcl :
         /\ ~NomeSemAno(a.nome)
         /\ ~FolhaSemRotulo(a.folha)
         /\ ~TemCabecalhoRuim(a.folha)

\* C24 as claimed: converter_valor raises nothing for a text that is no
\* number, so a month cell with such a text does not make the PUNCTUATED
\* load fail.
C24_CelulaRuimNaoAborta ==
    (modo = "PUNCTUATED" /\ SoCelulasPodemFalhar) =>
        \A c \in 1..Len(retornos) : retornos[c].erro = ""

\* C24, amended: converter_valor raises the ValueError of float() for a
\* text that is no number, and in the PUNCTUATED loader one month cell with
\* such a text makes the whole call fail with it: no table is returned.
C24_CelulaRuimAborta ==
    (modo = "PUNCTUATED" /\ SoCelulasPodemFalhar
       /\ \E a \in ArquivosRcl : FolhaComLetra(a.folha))
    => \A c \in 1..Len(retornos) :
          retornos[c].erro = "ValueError" /\ retornos[c].tabela = <<>>

\* a failed PUNCTUATED call on files that have nothing wrong but the month
\* cell "n/d", after a first file gave its records
C24_Witness ==
    /\ modo = "PUNCTUATED"
    /\ SoCelulasPodemFalhar
    /\ pc = "ocioso"
    /\ retornos # <<>>
    /\ retornos[Len(retornos)].erro = "ValueError"
    /\ indice = 2
    /\ Len(lista_dfs) = 1
    /\ lista_dfs[1] # <<>>
    /\ FolhaComLetra(FolhaDe(2))

----------------------------------------------------------------------------
(* C25 *)

\* C25 as claimed: in info.previsao the projected values shown and exported
\* come from a second fit, on the whole validated series; the fit on the
\* training half serves the validation metrics only.
C25_RetreinoCompleto ==
    (pagina = "info.previsao" /\ "tabela" \in produzido) =>
        /\ ajustes = 2
        /\ treinado = df_modelo

\* a finished run of info.previsao with its table and export, one fit
\* only, on the training rows
C25_SoUmAjuste ==
    /\ pagina = "info.previsao"
    /\ pcPrev = "fim"
    /\ {"tabela", "csv"} \subseteq produzido
    /\ ajustes = 1
    /\ treinado = train
    /\ Len(treinado) < Len(df_modelo)
    /\ \A k \in 1..Len(df_futuro) :
         \E p \in 1..Len(forecast) : forecast[p] = df_futuro[k]

----------------------------------------------------------------------------
(* C26 *)

DepoisDasMetricas == {"grafico", "tabela", "fim"}

\* C26 as claimed: every held-out row has a prediction of its date, so the
\* metrics are over the whole test set, whatever the series and the horizon.
C26_TodoOTesteNaJuncao ==
    pcPrev \in DepoisDasMetricas =>
        /\ \A j \in 1..Len(test) :
             \E p \in 1..Len(forecast) : forecast[p].ds = test[j].ds
        /\ metricas.n = Len(test)

\* what the pages do: the metrics are over the held-out rows dated within
\* the horizon counted from the last TRAINING date
C26_TesteAteOHorizonte ==
    pcPrev \in DepoisDasMetricas =>
        LET fim == treinado[Len(treinado)].ds + 12 * anos_previsao
        IN  metricas.n = Cardinality({j \in 1..Len(test) : test[j].ds <= fim})

\* info.previsao on 26 consecutive months with a horizon of one year: 13
\* rows held out, 12 of them in the metrics
C26_TrezeDoze ==
    /\ pagina = "info.previsao"
    /\ pcPrev = "fim"
    /\ anos_previsao = 1
    /\ Len(df_modelo) = 26
    /\ Len(test) = 13
    /\ metricas.n = 12
    /\ "metricas" \in produzido

----------------------------------------------------------------------------
(* C27 *)

\* C27 as claimed: whenever a series passed the gate and was split, in
\* either page, its training set holds 12 rows or more.
C27_TreinoDeDozeOuMais ==
    pcPrev \in DepoisDaDivisao => Len(train) >= 12

\* no two rows of the validated series are of one month
MesesDistintos ==
    \A i, j \in 1..Len(df_modelo) :
        df_modelo[i].ds = df_modelo[j].ds => i = j

\* what the pages guarantee: 12 training rows or more for a series with at
\* most one row a month
C27_TreinoSemRepeticao ==
    (pcPrev \in DepoisDaDivisao /\ MesesDistintos) => Len(train) >= 12

\* a run that passed the gate with 24 rows of 12 months, was left with no
\* training row at all, and ended in the exception of fit
C27_TreinoVazio ==
    /\ pcPrev = "erro"
    /\ motivo = "ValueError"
    /\ Len(df_modelo) = 24
    /\ train = <<>>
    /\ Len(test) = 24
    /\ produzido = {}

----------------------------------------------------------------------------
(* C28 *)

\* the three answers of the model for row k of the prediction, before the
\* inverse transform and the clip
Brutos(forma, k) ==
    LET z == Bruto(forma, forecast[k].ds, forecast[1].ds)
    IN  [yhat |-> z, yhat_lower |-> z - forma.larg, yhat_upper |-> z + forma.larg]

\* C28: in Previsao_Receitas, whatever the model answered, each yhat,
\* yhat_lower and yhat_upper the page keeps (expm1, then clip at 0) is the
\* value that clipping the model's answer at 0 first and applying expm1 to
\* the result gives.
C28_OrdemIndiferente ==
    (pagina = "Previsao_Receitas" /\ pcPrev = "metricas") =>
        \A forma \in Formas :
            forecast = Prever(pagina, treinado, 12 * anos_previsao, forma) =>
                \A k \in 1..Len(forecast) :
                    /\ forecast[k].yhat = Expm1Mil(Clip0(Brutos(forma, k).yhat))
                    /\ forecast[k].yhat_lower
                         = Expm1Mil(Clip0(Brutos(forma, k).yhat_lower))
                    /\ forecast[k].yhat_upper
                         = Expm1Mil(Clip0(Brutos(forma, k).yhat_upper))

\* a prediction of Previsao_Receitas with an answer below zero in one row
\* and one above zero in another
C28_Witness ==
    /\ pagina = "Previsao_Receitas"
    /\ pcPrev = "metricas"
    /\ \E forma \in Formas :
         /\ forecast = Prever(pagina, treinado, 12 * anos_previsao, forma)
         /\ \E k \in 1..Len(forecast) : Brutos(forma, k).yhat_lower < 0
         /\ \E k \in 1..Len(forecast) : Brutos(forma, k).yhat > 0

----------------------------------------------------------------------------
(* C29 *)

----------------------------------------------------------------------------
(* C30 *)

OutroModo(md) == IF md = "PUNCTUATED" THEN "HINTED" ELSE "PUNCTUATED"

\* every month cell of every file the call reads is a number or is missing
DiretorioSoNumeros == \A a \in ArquivosRcl : FolhaSoNumeros(a.folha)

RotulosDe(tab) == {tab[k].ESPECIFICACAO : k \in 1..Len(tab)}

\* C30: when every month cell of the directory is a number or is missing,
\* a finished call of one loader and a call of the other loader on the same
\* directory raise alike, and for every specification the series the
\* forecast page builds (that specification's rows, sorted by date, values
\* above zero) is the same from both tables.
C30_SerieIgualNosDoisModos ==
    (pc = "ocioso" /\ retornos # <<>> /\ DiretorioSoNumeros) =>
        LET aqui  == retornos[Len(retornos)]
            outro == CarregarRcl(diretorio, OutroModo(modo))
        IN  /\ aqui = CarregarRcl(diretorio, modo)
            /\ aqui.erro = outro.erro
            /\ \A esp \in RotulosDe(aqui.tabela) \cup RotulosDe(outro.tabela)
                          \cup TIPOS_COMPOSICAO :
                 \A estavel \in BOOLEAN :
                     PrepararSerie(aqui.tabela, esp, estavel)
                         = PrepararSerie(outro.tabela, esp, estavel)

\* a call returned a table from such a directory; a row of an offered
\* specification has a missing month cell, which the other loader stores
\* differently, and the series of that specification is not empty
C30_Witness ==
    /\ pc = "ocioso"
    /\ retornos # <<>>
    /\ DiretorioSoNumeros
    /\ retornos[Len(retornos)].erro = ""
    /\ \E esp \in TIPOS_COMPOSICAO :
         /\ PrepararSerie(TabelaRetornada, esp, TRUE) # <<>>
         /\ \E k \in 1..Len(TabelaRetornada) :
              /\ TabelaRetornada[k].ESPECIFICACAO = esp
              /\ ~Positivo(TabelaRetornada[k].VALOR)
              /\ CarregarRcl(diretorio, OutroModo(modo)).tabela[k].VALOR
                   # TabelaRetornada[k].VALOR

============================================================================
